---------------------------- MODULE Spec2Model ----------------------------
(***************************************************************************)
(* Model of friendM/create_markov_dict.py: the batch build of an order-2   *)
(* Markov dictionary (word list + integer dictionary) from response,       *)
(* content and transition phrases.                                         *)
(*                                                                         *)
(* Text (tokens, file contents) is a sequence of Unicode code points.      *)
(* A Python int is a little-endian sequence of bits without a leading      *)
(* zero (0 is the empty sequence), so that 64-bit keys and identifiers     *)
(* beyond 2^31 are represented exactly.  The model starts when the three   *)
(* inputs have been read; the tokenizer is given by the node list it       *)
(* returns for each content text, and file-system failures are left out.   *)
(***************************************************************************)
EXTENDS Integers, Sequences, FiniteSets, TLC

VARIABLES
    pc,                 \* position in main()
    exit_code,          \* -1 while running, 0 on normal return, 1 on sys.exit(1)
    response_lines,     \* list of phrases (text)
    transition_lines,   \* list of phrases (text)
    content_lines,      \* list of content texts, each given by its MeCab node list
    combinations,       \* Settings.combinations
    i,                  \* loop index of the generation loop
    all_sentence_parts, \* list of (res_words, con_words, tra_words)
    u,                  \* number of units consumed by the triplet loop
    all_triplets,       \* list of (w1, w2, w3)
    id_to_word,         \* sorted list of tokens
    word_to_id,         \* token -> int
    int_markov_data,    \* long_key -> list of successor ids
    start_word_ids,     \* set of ids
    t,                  \* number of triplets consumed by the table loop
    id1, id2, id3,      \* locals of the table loop
    long_key,           \* local of the table loop
    sorted_keys,        \* sorted(int_markov_data.keys())
    k,                  \* number of keys written
    key_id1, key_id2,   \* id1, id2 as unpacked in the writing loop
    wordlist_file,      \* output_wordlist_path: [exists, data]
    intdict_file        \* output_intdict_path: [exists, data]

vars == << pc, exit_code, response_lines, transition_lines, content_lines,
           combinations, i, all_sentence_parts, u, all_triplets, id_to_word,
           word_to_id, int_markov_data, start_word_ids, t, id1, id2, id3,
           long_key, sorted_keys, k, key_id1, key_id2, wordlist_file,
           intdict_file >>

-----------------------------------------------------------------------------
(* Bounds of the model *)

MaxCombinations == 2

MaxTriplets == 3

-----------------------------------------------------------------------------
(* Characters and reserved tokens *)

Newline == 10

Comma == 44

Pipe == 124

Digit0 == 48

BOS == <<64,66,79,83,64>>

EOS == <<64,69,79,83,64>>

LINK_TOKEN_RC ==
    <<95,95,76,73,78,75,95,82,101,115,112,111,110,115,101,95,67,111,110,116,
      101,110,116,95,95>>

LINK_TOKEN_CT ==
    <<95,95,76,73,78,75,95,67,111,110,116,101,110,116,95,84,114,97,110,115,
      105,116,105,111,110,95,95>>

LINK_TOKEN_TE ==
    <<95,95,76,73,78,75,95,84,114,97,110,115,105,116,105,111,110,95,69,110,
      100,95,95>>

ReservedTokens == {BOS, EOS, LINK_TOKEN_RC, LINK_TOKEN_CT, LINK_TOKEN_TE}

-----------------------------------------------------------------------------
(* Python built-ins used by main() *)

Min(a, b) == IF a <= b THEN a ELSE b

Max(a, b) == IF a >= b THEN a ELSE b

\* str < str: lexicographic order by code point
StrLess(a, b) ==
    \E n \in 1..(Min(Len(a), Len(b)) + 1) :
        /\ \A j \in 1..(n - 1) : a[j] = b[j]
        /\ \/ n > Len(a) /\ n <= Len(b)
           \/ n <= Len(a) /\ n <= Len(b) /\ a[n] < b[n]

\* int: the bits of a natural number, least significant first
RECURSIVE Bits(_)
Bits(n) == IF n = 0 THEN <<>> ELSE <<n % 2>> \o Bits(n \div 2)

\* the natural number denoted by the bits of a small int
RECURSIVE Value(_)
Value(b) == IF b = <<>> THEN 0 ELSE Head(b) + 2 * Value(Tail(b))

\* an int without leading zero bits
Normalize(b) ==
    LET ones == {n \in 1..Len(b) : b[n] = 1}
    IN  IF ones = {} THEN <<>>
        ELSE SubSeq(b, 1, CHOOSE n \in ones : \A m \in ones : m <= n)

BitAt(b, n) == IF n <= Len(b) THEN b[n] ELSE 0

\* a << n
ShiftLeft(a, n) == IF a = <<>> THEN <<>> ELSE [j \in 1..n |-> 0] \o a

\* a >> n
ShiftRight(a, n) == SubSeq(a, n + 1, Len(a))

\* a | b
BitOr(a, b) ==
    [j \in 1..Max(Len(a), Len(b)) |->
        IF BitAt(a, j) = 1 \/ BitAt(b, j) = 1 THEN 1 ELSE 0]

\* a & b
BitAnd(a, b) ==
    Normalize([j \in 1..Min(Len(a), Len(b)) |-> a[j] * b[j]])

\* int < int
IntLess(a, b) ==
    \/ Len(a) < Len(b)
    \/ /\ Len(a) = Len(b)
       /\ \E n \in 1..Len(a) :
            /\ a[n] < b[n]
            /\ \A j \in (n + 1)..Len(a) : a[j] = b[j]

\* sorted(list(S)) for a set S of str
RECURSIVE SortedWords(_)
SortedWords(S) ==
    IF S = {} THEN <<>>
    ELSE LET m == CHOOSE x \in S : \A y \in S : x = y \/ StrLess(x, y)
         IN  <<m>> \o SortedWords(S \ {m})

\* sorted(list(S)) for a set S of int
RECURSIVE SortedInts(_)
SortedInts(S) ==
    IF S = {} THEN <<>>
    ELSE LET m == CHOOSE x \in S : \A y \in S : x = y \/ IntLess(x, y)
         IN  <<m>> \o SortedInts(S \ {m})

\* str(n) for a natural number n
RECURSIVE Decimal(_)
Decimal(n) ==
    IF n < 10 THEN <<Digit0 + n>>
    ELSE Decimal(n \div 10) \o <<Digit0 + (n % 10)>>

\* str(x) for an int
Str(x) == Decimal(Value(x))

\* sep.join(parts)
RECURSIVE Join(_, _)
Join(parts, sep) ==
    IF parts = <<>> THEN <<>>
    ELSE IF Len(parts) = 1 THEN parts[1]
    ELSE parts[1] \o <<sep>> \o Join(Tail(parts), sep)

Range(s) == {s[j] : j \in 1..Len(s)}

\* map(str, ids)
StrAll(ids) == [j \in 1..Len(ids) |-> Str(ids[j])]

-----------------------------------------------------------------------------
(* The steps of main() as functions of their operands *)

\* parse_text_to_words: the surfaces of the nodes, skipping empty surfaces
\* and nodes whose posid is 0
parse_text_to_words(nodes) ==
    LET kept == SelectSeq(nodes, LAMBDA n : n.surface /= <<>> /\ n.posid /= 0)
    IN  [j \in 1..Len(kept) |-> kept[j].surface]

\* full_sequence of one unit
FullSequence(res_words, con_words, tra_words) ==
    <<BOS>> \o res_words \o <<LINK_TOKEN_RC>> \o con_words
        \o <<LINK_TOKEN_CT>> \o tra_words \o <<LINK_TOKEN_TE>> \o <<EOS>>

\* the triplets of one full_sequence, in window order
SequenceTriplets(seq) ==
    IF Len(seq) < 3 THEN <<>>
    ELSE [j \in 1..(Len(seq) - 2) |-> <<seq[j], seq[j + 1], seq[j + 2]>>]

\* all_words started from an empty set
AllWordsNoReserved(triplets) ==
    {tr[n] : tr \in Range(triplets), n \in 1..3}

\* all_words
AllWords(triplets) ==
    ReservedTokens \cup {tr[n] : tr \in Range(triplets), n \in 1..3}

\* id_to_word with the two sentinels pinned to identifiers 0 and 1
IdToWordPinned(triplets) ==
    <<BOS, EOS>> \o SortedWords(AllWords(triplets) \ {BOS, EOS})

\* id_to_word
IdToWord(triplets) == SortedWords(AllWords(triplets))

\* word_to_id numbered from 1
WordToIdOneBased(words) ==
    [w \in Range(words) |->
        Bits(CHOOSE j \in 1..Len(words) :
                 /\ words[j] = w
                 /\ \A n \in 1..Len(words) : words[n] = w => n <= j)]

\* word_to_id = {word: i for i, word in enumerate(id_to_word)}
WordToId(words) ==
    [w \in Range(words) |->
        Bits((CHOOSE j \in 1..Len(words) :
                 /\ words[j] = w
                 /\ \A n \in 1..Len(words) : words[n] = w => n <= j) - 1)]

PackShift == 32

UnpackShift == 32

MaskWidth == 32

\* 0xFFFFFFFF
LowMask == [j \in 1..MaskWidth |-> 1]

\* (id1 << 32) | id2
PackKey(a, b) == BitOr(ShiftLeft(a, PackShift), b)

\* key >> 32
UnpackHigh(key) == ShiftRight(key, UnpackShift)

\* key & 0x7FFFFFFF: the low word read as a signed 32-bit value's magnitude
UnpackLowSigned(key) == BitAnd(key, [j \in 1..(MaskWidth - 1) |-> 1])

\* key & 0xFFFFFFFF
UnpackLow(key) == BitAnd(key, LowMask)

\* start_word_ids under the two-sentinel start context
StartAfterTwoSentinels(starts, w2i, tr) ==
    IF tr[1] = BOS /\ tr[2] = BOS THEN starts \cup {w2i[tr[3]]} ELSE starts

\* start_word_ids after one iteration of the table loop
StartAfter(starts, w2i, tr) ==
    IF tr[1] = BOS THEN starts \cup {w2i[tr[2]]} ELSE starts

\* int_markov_data[key] = [v]
AppendToOverwrite(data, key, v) ==
    [x \in DOMAIN data \cup {key} |-> IF x = key THEN <<v>> ELSE data[x]]

\* int_markov_data[key].append(v) on a defaultdict(list)
AppendTo(data, key, v) ==
    IF key \in DOMAIN data
    THEN [data EXCEPT ![key] = Append(@, v)]
    ELSE [x \in DOMAIN data \cup {key} |->
            IF x = key THEN <<v>> ELSE data[x]]

\* int_markov_data after one iteration of the table loop
DataAfter(data, w2i, tr) ==
    AppendTo(data, PackKey(w2i[tr[1]], w2i[tr[2]]), w2i[tr[3]])

\* '\n'.join(id_to_word)
WordListText(words) == Join(words, Newline)

\* the first line of the dictionary
StartLine(starts) ==
    Join(StrAll(SortedInts(starts)), Comma) \o <<Newline>>

Reverse(s) == [j \in 1..Len(s) |-> s[Len(s) + 1 - j]]

\* sorted(int_markov_data.keys(), reverse=True)
SortedKeysDescending(data) == Reverse(SortedInts(DOMAIN data))

\* sorted(int_markov_data.keys())
SortedKeys(data) == SortedInts(DOMAIN data)

\* list(dict.fromkeys(value_ids)): distinct, in order of first insertion
ValueIdsInsertionOrder(value_ids) ==
    LET first == {n \in 1..Len(value_ids) :
                     \A j \in 1..(n - 1) : value_ids[j] /= value_ids[n]}
        RECURSIVE Pick(_)
        Pick(n) == IF n > Len(value_ids) THEN <<>>
                   ELSE IF n \in first THEN <<value_ids[n]>> \o Pick(n + 1)
                   ELSE Pick(n + 1)
    IN  Pick(1)

\* sorted(value_ids)
RECURSIVE SortedValueIdsWithDuplicates(_)
SortedValueIdsWithDuplicates(value_ids) ==
    IF value_ids = <<>> THEN <<>>
    ELSE LET m == CHOOSE n \in 1..Len(value_ids) :
                     \A j \in 1..Len(value_ids) :
                        value_ids[j] = value_ids[n]
                            \/ IntLess(value_ids[n], value_ids[j])
             rest == [j \in 1..(Len(value_ids) - 1) |->
                        IF j < m THEN value_ids[j] ELSE value_ids[j + 1]]
         IN  <<value_ids[m]>> \o SortedValueIdsWithDuplicates(rest)

\* sorted(list(set(value_ids)))
SortedValueIds(value_ids) == SortedInts(Range(value_ids))

\* one key line of the dictionary
KeyLine(data, key) ==
    Str(UnpackHigh(key)) \o <<Comma>> \o Str(UnpackLow(key)) \o <<Pipe>>
        \o Join(StrAll(SortedValueIds(data[key])), Comma) \o <<Newline>>

NoFile == [exists |-> FALSE, data |-> <<>>]

File(text) == [exists |-> TRUE, data |-> text]

EmptyDict == [x \in {} |-> <<>>]

-----------------------------------------------------------------------------
(* Inputs *)

W_a == <<97>>

W_b == <<98>>

W_c == <<99>>

W_z == <<122>>

W_0 == <<48>>

W_D == <<64,68>>

Node(surface, posid) == [surface |-> surface, posid |-> posid]

\* the BOS/EOS node of MeCab: empty surface
EdgeNode == Node(<<>>, 0)

TextBC == <<EdgeNode, Node(W_b, 38), Node(W_c, 38), EdgeNode>>

TextEmpty == <<EdgeNode, EdgeNode>>

TextFiltered == <<EdgeNode, Node(W_z, 0), Node(W_b, 38), EdgeNode>>

ResponseFiles == { <<>>, <<W_a>>, <<W_a, W_D>>, <<BOS, W_a>> }

TransitionFiles == { <<>>, <<W_z>>, <<W_0, W_z>> }

ContentFiles ==
    { <<>>, <<TextBC>>, <<TextBC, TextEmpty>>, <<TextFiltered, TextBC>> }

Permutation(s) ==
    { [j \in 1..Len(s) |-> s[p[j]]] : p \in Permutations(1..Len(s)) }

-----------------------------------------------------------------------------
(* main() *)

Init ==
    /\ pc = "check_inputs"
    /\ exit_code = -1
    /\ response_lines \in ResponseFiles
    /\ transition_lines \in TransitionFiles
    /\ content_lines \in ContentFiles
    /\ combinations \in -1..MaxCombinations
    /\ i = 0
    /\ all_sentence_parts = <<>>
    /\ u = 0
    /\ all_triplets = <<>>
    /\ id_to_word = <<>>
    /\ word_to_id = EmptyDict
    /\ int_markov_data = EmptyDict
    /\ start_word_ids = {}
    /\ t = 0
    /\ id1 = <<>> /\ id2 = <<>> /\ id3 = <<>>
    /\ long_key = <<>>
    /\ sorted_keys = <<>>
    /\ k = 0
    /\ key_id1 = <<>> /\ key_id2 = <<>>
    /\ wordlist_file = NoFile
    /\ intdict_file = NoFile

\* lines 83-85
CheckInputs ==
    /\ pc = "check_inputs"
    /\ IF response_lines = <<>> \/ content_lines = <<>> \/ transition_lines = <<>>
       THEN pc' = "exit" /\ exit_code' = 1
       ELSE pc' = "shuffle" /\ exit_code' = exit_code
    /\ UNCHANGED << response_lines, transition_lines, content_lines,
                    combinations, i, all_sentence_parts, u, all_triplets,
                    id_to_word, word_to_id, int_markov_data, start_word_ids,
                    t, id1, id2, id3, long_key, sorted_keys, k, key_id1,
                    key_id2, wordlist_file, intdict_file >>

\* lines 87-93
Shuffle ==
    /\ pc = "shuffle"
    /\ response_lines' \in Permutation(response_lines)
    /\ transition_lines' \in Permutation(transition_lines)
    /\ pc' = "generate"
    /\ UNCHANGED << exit_code, content_lines, combinations, i,
                    all_sentence_parts, u, all_triplets, id_to_word,
                    word_to_id, int_markov_data, start_word_ids, t, id1, id2,
                    id3, long_key, sorted_keys, k, key_id1, key_id2,
                    wordlist_file, intdict_file >>

\* lines 95-109: one iteration
GenerateUnit ==
    /\ pc = "generate"
    /\ i < combinations
    /\ \E c \in 1..Len(content_lines) :
         LET res_phrase == response_lines[(i % Len(response_lines)) + 1]
             tra_phrase == transition_lines[(i % Len(transition_lines)) + 1]
             con_text   == content_lines[c]
         IN  all_sentence_parts' =
                Append(all_sentence_parts,
                       << <<res_phrase>>, parse_text_to_words(con_text),
                          <<tra_phrase>> >>)
    /\ i' = i + 1
    /\ UNCHANGED << pc, exit_code, response_lines, transition_lines,
                    content_lines, combinations, u, all_triplets, id_to_word,
                    word_to_id, int_markov_data, start_word_ids, t, id1, id2,
                    id3, long_key, sorted_keys, k, key_id1, key_id2,
                    wordlist_file, intdict_file >>

\* lines 111-117
StartPostProcessing ==
    /\ pc = "generate"
    /\ i >= combinations
    /\ all_triplets' = <<>>
    /\ u' = 0
    /\ pc' = "triplets"
    /\ UNCHANGED << exit_code, response_lines, transition_lines,
                    content_lines, combinations, i, all_sentence_parts,
                    id_to_word, word_to_id, int_markov_data, start_word_ids,
                    t, id1, id2, id3, long_key, sorted_keys, k, key_id1,
                    key_id2, wordlist_file, intdict_file >>

\* lines 118-126: one iteration
ExtractTriplets ==
    /\ pc = "triplets"
    /\ u < Len(all_sentence_parts)
    /\ LET part == all_sentence_parts[u + 1]
       IN  all_triplets' =
             all_triplets
               \o SequenceTriplets(FullSequence(part[1], part[2], part[3]))
    /\ u' = u + 1
    /\ UNCHANGED << pc, exit_code, response_lines, transition_lines,
                    content_lines, combinations, i, all_sentence_parts,
                    id_to_word, word_to_id, int_markov_data, start_word_ids,
                    t, id1, id2, id3, long_key, sorted_keys, k, key_id1,
                    key_id2, wordlist_file, intdict_file >>

\* lines 128-140
BuildVocabulary ==
    /\ pc = "triplets"
    /\ u >= Len(all_sentence_parts)
    /\ id_to_word' = IdToWord(all_triplets)
    /\ word_to_id' = WordToId(id_to_word')
    /\ int_markov_data' = EmptyDict
    /\ start_word_ids' = {}
    /\ t' = 0
    /\ pc' = "table"
    /\ UNCHANGED << exit_code, response_lines, transition_lines,
                    content_lines, combinations, i, all_sentence_parts, u,
                    all_triplets, id1, id2, id3, long_key, sorted_keys, k,
                    key_id1, key_id2, wordlist_file, intdict_file >>

\* lines 142-151: one iteration
BuildTableStep ==
    /\ pc = "table"
    /\ t < Len(all_triplets)
    /\ LET tr == all_triplets[t + 1]
       IN  /\ start_word_ids' = StartAfter(start_word_ids, word_to_id, tr)
           /\ id1' = word_to_id[tr[1]]
           /\ id2' = word_to_id[tr[2]]
           /\ id3' = word_to_id[tr[3]]
           /\ long_key' = PackKey(id1', id2')
           /\ int_markov_data' = DataAfter(int_markov_data, word_to_id, tr)
    /\ t' = t + 1
    /\ UNCHANGED << pc, exit_code, response_lines, transition_lines,
                    content_lines, combinations, i, all_sentence_parts, u,
                    all_triplets, id_to_word, word_to_id, sorted_keys, k,
                    key_id1, key_id2, wordlist_file, intdict_file >>

\* lines 153-156
WriteWordList ==
    /\ pc = "table"
    /\ t >= Len(all_triplets)
    /\ wordlist_file' = File(WordListText(id_to_word))
    /\ pc' = "write_dict"
    /\ UNCHANGED << exit_code, response_lines, transition_lines,
                    content_lines, combinations, i, all_sentence_parts, u,
                    all_triplets, id_to_word, word_to_id, int_markov_data,
                    start_word_ids, t, id1, id2, id3, long_key, sorted_keys,
                    k, key_id1, key_id2, intdict_file >>

\* lines 161-166
WriteStartLine ==
    /\ pc = "write_dict"
    /\ intdict_file' = File(StartLine(start_word_ids))
    /\ sorted_keys' = SortedKeys(int_markov_data)
    /\ k' = 0
    /\ pc' = "write_keys"
    /\ UNCHANGED << exit_code, response_lines, transition_lines,
                    content_lines, combinations, i, all_sentence_parts, u,
                    all_triplets, id_to_word, word_to_id, int_markov_data,
                    start_word_ids, t, id1, id2, id3, long_key, key_id1,
                    key_id2, wordlist_file >>

\* lines 167-173: one iteration
WriteKeyLine ==
    /\ pc = "write_keys"
    /\ k < Len(sorted_keys)
    /\ LET key == sorted_keys[k + 1]
       IN  /\ key_id1' = UnpackHigh(key)
           /\ key_id2' = UnpackLow(key)
           /\ intdict_file' =
                File(intdict_file.data \o KeyLine(int_markov_data, key))
    /\ k' = k + 1
    /\ UNCHANGED << pc, exit_code, response_lines, transition_lines,
                    content_lines, combinations, i, all_sentence_parts, u,
                    all_triplets, id_to_word, word_to_id, int_markov_data,
                    start_word_ids, t, id1, id2, id3, long_key, sorted_keys,
                    wordlist_file >>

\* lines 178-180
Finish ==
    /\ pc = "write_keys"
    /\ k >= Len(sorted_keys)
    /\ pc' = "done"
    /\ exit_code' = 0
    /\ UNCHANGED << response_lines, transition_lines, content_lines,
                    combinations, i, all_sentence_parts, u, all_triplets,
                    id_to_word, word_to_id, int_markov_data, start_word_ids,
                    t, id1, id2, id3, long_key, sorted_keys, k, key_id1,
                    key_id2, wordlist_file, intdict_file >>

Next ==
    \/ CheckInputs
    \/ Shuffle
    \/ GenerateUnit
    \/ StartPostProcessing
    \/ ExtractTriplets
    \/ BuildVocabulary
    \/ BuildTableStep
    \/ WriteWordList
    \/ WriteStartLine
    \/ WriteKeyLine
    \/ Finish

Spec == Init /\ [][Next]_vars

-----------------------------------------------------------------------------
(* Lines 128-173 as one function of the triplet list *)

\* the table loop over a whole triplet list
RECURSIVE BuildTable(_, _, _, _)
BuildTable(data, starts, w2i, triplets) ==
    IF triplets = <<>> THEN [data |-> data, starts |-> starts]
    ELSE BuildTable(DataAfter(data, w2i, Head(triplets)),
                    StartAfter(starts, w2i, Head(triplets)),
                    w2i, Tail(triplets))

\* the writing loop over a whole key list
RECURSIVE KeyLines(_, _)
KeyLines(data, keys) ==
    IF keys = <<>> THEN <<>>
    ELSE KeyLine(data, Head(keys)) \o KeyLines(data, Tail(keys))

\* the content of the dictionary file written for a triplet list
DictionaryText(triplets) ==
    LET table == BuildTable(EmptyDict, {}, WordToId(IdToWord(triplets)),
                            triplets)
    IN  StartLine(table.starts)
            \o KeyLines(table.data, SortedKeys(table.data))

\* Triplet lists given directly to lines 128-173
TripletPool ==
    { <<BOS, W_a, W_b>>, <<BOS, W_a, EOS>>, <<W_a, W_b, EOS>>,
      <<W_b, W_a, W_a>>, <<BOS, W_b, W_a>> }

TripletLists == UNION { [1..n -> TripletPool] : n \in 0..MaxTriplets }

InitTriplets ==
    /\ pc = "triplets"
    /\ exit_code = -1
    /\ response_lines = <<>>
    /\ transition_lines = <<>>
    /\ content_lines = <<>>
    /\ combinations = 0
    /\ i = 0
    /\ all_sentence_parts = <<>>
    /\ u = 0
    /\ all_triplets \in TripletLists
    /\ id_to_word = <<>>
    /\ word_to_id = EmptyDict
    /\ int_markov_data = EmptyDict
    /\ start_word_ids = {}
    /\ t = 0
    /\ id1 = <<>> /\ id2 = <<>> /\ id3 = <<>>
    /\ long_key = <<>>
    /\ sorted_keys = <<>>
    /\ k = 0
    /\ key_id1 = <<>> /\ key_id2 = <<>>
    /\ wordlist_file = NoFile
    /\ intdict_file = NoFile

NextTriplets ==
    \/ BuildVocabulary
    \/ BuildTableStep
    \/ WriteWordList
    \/ WriteStartLine
    \/ WriteKeyLine
    \/ Finish

SpecTriplets == InitTriplets /\ [][NextTriplets]_vars

-----------------------------------------------------------------------------
(* Packing (line 150) and unpacking (lines 169-170) on given identifiers *)

\* 2^n
PowerOfTwo(n) == [j \in 1..(n + 1) |-> IF j = n + 1 THEN 1 ELSE 0]

\* 2^n - 1
AllOnes(n) == [j \in 1..n |-> 1]

IdSamples ==
    { Bits(0), Bits(1), Bits(6), PowerOfTwo(16), PowerOfTwo(31), AllOnes(32),
      PowerOfTwo(32), BitOr(PowerOfTwo(32), Bits(1)) }

InitPack ==
    /\ pc = "pack"
    /\ exit_code = -1
    /\ response_lines = <<>>
    /\ transition_lines = <<>>
    /\ content_lines = <<>>
    /\ combinations = 0
    /\ i = 0
    /\ all_sentence_parts = <<>>
    /\ u = 0
    /\ all_triplets = <<>>
    /\ id_to_word = <<>>
    /\ word_to_id = EmptyDict
    /\ int_markov_data = EmptyDict
    /\ start_word_ids = {}
    /\ t = 0
    /\ id1 \in IdSamples /\ id2 \in IdSamples /\ id3 = <<>>
    /\ long_key = <<>>
    /\ sorted_keys = <<>>
    /\ k = 0
    /\ key_id1 = <<>> /\ key_id2 = <<>>
    /\ wordlist_file = NoFile
    /\ intdict_file = NoFile

\* line 150
Pack ==
    /\ pc = "pack"
    /\ long_key' = PackKey(id1, id2)
    /\ pc' = "unpack"
    /\ UNCHANGED << exit_code, response_lines, transition_lines,
                    content_lines, combinations, i, all_sentence_parts, u,
                    all_triplets, id_to_word, word_to_id, int_markov_data,
                    start_word_ids, t, id1, id2, id3, sorted_keys, k,
                    key_id1, key_id2, wordlist_file, intdict_file >>

\* lines 169-170
Unpack ==
    /\ pc = "unpack"
    /\ key_id1' = UnpackHigh(long_key)
    /\ key_id2' = UnpackLow(long_key)
    /\ pc' = "unpacked"
    /\ UNCHANGED << exit_code, response_lines, transition_lines,
                    content_lines, combinations, i, all_sentence_parts, u,
                    all_triplets, id_to_word, word_to_id, int_markov_data,
                    start_word_ids, t, id1, id2, id3, long_key, sorted_keys,
                    k, wordlist_file, intdict_file >>

NextPack == Pack \/ Unpack

SpecPack == InitPack /\ [][NextPack]_vars

-----------------------------------------------------------------------------
(* Reading the two files back *)

\* text.split(sep)
Split(text, sep) ==
    LET at == {n \in 1..Len(text) : text[n] = sep}
        Cut(j) == IF j = 0 THEN 0
                  ELSE IF j = Cardinality(at) + 1 THEN Len(text) + 1
                  ELSE CHOOSE n \in at : Cardinality({m \in at : m < n}) = j - 1
        fields == [j \in 1..(Cardinality(at) + 1) |->
                      SubSeq(text, Cut(j - 1) + 1, Cut(j) - 1)]
    IN  SubSeq(fields, 1, Len(fields))

\* int(digits)
RECURSIVE ParseInt(_)
ParseInt(digits) ==
    IF Len(digits) = 1 THEN digits[1] - Digit0
    ELSE 10 * ParseInt(SubSeq(digits, 1, Len(digits) - 1))
            + (digits[Len(digits)] - Digit0)

ParseIntList(field) ==
    IF field = <<>> THEN <<>>
    ELSE LET parts == Split(field, Comma)
         IN  [j \in 1..Len(parts) |-> ParseInt(parts[j])]

\* the lines of a text whose every line ends with a newline
LinesOf(text) ==
    LET fields == Split(text, Newline)
    IN  SubSeq(fields, 1, Len(fields) - 1)

DecodeKeyLine(line) ==
    LET halves == Split(line, Pipe)
        keyids == ParseIntList(halves[1])
    IN  [id1 |-> keyids[1], id2 |-> keyids[2],
         successors |-> ParseIntList(halves[2])]

\* the Start-Set line of the dictionary file
DecodedStart == ParseIntList(LinesOf(intdict_file.data)[1])

\* the key lines of the dictionary file
DecodedEntries ==
    LET lines == LinesOf(intdict_file.data)
    IN  [n \in 1..(Len(lines) - 1) |-> DecodeKeyLine(lines[n + 1])]

\* the lines of the word list file
DecodedWords == Split(wordlist_file.data, Newline)

StrictlyAscending(s) == \A n \in 1..(Len(s) - 1) : s[n] < s[n + 1]

-----------------------------------------------------------------------------
(* Properties *)

Fits32(x) == IntLess(x, PowerOfTwo(32))

\* C4: for identifiers below 2^32, unpacking the packed key gives back
\* (id1, id2), and no other pair of identifiers below 2^32 packs to the
\* same key.
C4_PackUnpackBijection ==
    (pc = "unpacked" /\ Fits32(id1) /\ Fits32(id2)) =>
        /\ key_id1 = id1
        /\ key_id2 = id2
        /\ \A a, b \in {x \in IdSamples : Fits32(x)} :
              PackKey(a, b) = long_key => (a = id1 /\ b = id2)

C4_Witness ==
    pc = "unpacked" /\ id1 = AllOnes(32) /\ id2 = PowerOfTwo(31)

\* C5: an identifier of 2^32 or more never gets through packing with a
\* changed value: the pair read back from a key is the pair that was packed
\* (the build would have to stop before packing otherwise).
C5_OverflowNeverTruncates ==
    pc = "unpacked" => (key_id1 = id1 /\ key_id2 = id2)

\* the line number, from 0, of a word in the word list file
IdOfWord(w) == (CHOOSE n \in 1..Len(DecodedWords) : DecodedWords[n] = w) - 1

AssembledSequences ==
    { FullSequence(p[1], p[2], p[3]) : p \in Range(all_sentence_parts) }

\* the pairs at positions i, i+1 of an assembled sequence with a token at i+2
SeenPairs ==
    UNION { { <<s[j], s[j + 1]>> : j \in 1..(Len(s) - 2) } :
            s \in AssembledSequences }

\* the tokens right after an adjacent (a, b) in any assembled sequence
Followers(a, b) ==
    UNION { { s[j + 2] : j \in {n \in 1..(Len(s) - 2) :
                                   s[n] = a /\ s[n + 1] = b} } :
            s \in AssembledSequences }

\* the key lines with their line number, as a set
DecodedTable ==
    LET lines == LinesOf(intdict_file.data)
    IN  { [line |-> n, entry |-> DecodeKeyLine(lines[n + 1])] :
            n \in 1..(Len(lines) - 1) }

\* C1: reading the dictionary back with the word list gives, for every pair
\* of adjacent tokens that has a follower in some assembled sequence, exactly
\* one key line, whose successors name exactly the followers of the pair;
\* and every key line is the line of such a pair.
C1_RoundTrip ==
    pc = "done" =>
        LET words == DecodedWords
            table == DecodedTable
            IdOf(w) == (CHOOSE n \in 1..Len(words) : words[n] = w) - 1
            pairIds == { [pair |-> pr, id1 |-> IdOf(pr[1]), id2 |-> IdOf(pr[2])] :
                           pr \in SeenPairs }
        IN  /\ \A p \in pairIds :
                  LET hits == {r \in table : /\ r.entry.id1 = p.id1
                                             /\ r.entry.id2 = p.id2}
                  IN  /\ Cardinality(hits) = 1
                      /\ \A r \in hits :
                            {words[x + 1] : x \in Range(r.entry.successors)}
                              = Followers(p.pair[1], p.pair[2])
            /\ \A r \in table :
                  \E p \in pairIds : /\ r.entry.id1 = p.id1
                                     /\ r.entry.id2 = p.id2

C1_Witness ==
    /\ pc = "done"
    /\ Len(DecodedWords) >= 11
    /\ \E pr \in SeenPairs : Cardinality(Followers(pr[1], pr[2])) >= 2

\* C3: id_to_word is the strictly ascending (by code point) list of the
\* tokens of all triplets and the five reserved tokens, word_to_id maps the
\* token at index i to i, and line i of the word list file is that token.
C3_VocabularyBijection ==
    pc \in {"table", "write_dict", "write_keys", "done"} =>
        /\ Range(id_to_word) =
              ReservedTokens
                \cup UNION { {tr[1], tr[2], tr[3]} : tr \in Range(all_triplets) }
        /\ \A n \in 1..(Len(id_to_word) - 1) :
              StrLess(id_to_word[n], id_to_word[n + 1])
        /\ DOMAIN word_to_id = Range(id_to_word)
        /\ \A n \in 1..Len(id_to_word) :
              Value(word_to_id[id_to_word[n]]) = n - 1
        /\ wordlist_file.exists => DecodedWords = id_to_word

C3_Witness ==
    /\ pc = "done"
    /\ Len(id_to_word) = 11
    /\ Len(DecodedWords) = 11
    /\ all_triplets /= <<>>

\* C7: the key lines are in strictly ascending order of (id1, id2), which is
\* the strictly ascending order of the packed keys, one line per key.
C7_KeyLinesAscending ==
    intdict_file.exists =>
        LET entries == DecodedEntries
        IN  /\ Len(entries) = k
            /\ \A n \in 1..(Len(entries) - 1) :
                  \/ entries[n].id1 < entries[n + 1].id1
                  \/ /\ entries[n].id1 = entries[n + 1].id1
                     /\ entries[n].id2 < entries[n + 1].id2
            /\ \A n \in 1..(Len(sorted_keys) - 1) :
                  IntLess(sorted_keys[n], sorted_keys[n + 1])
            /\ \A n \in 1..Len(entries) :
                  sorted_keys[n] =
                     PackKey(Bits(entries[n].id1), Bits(entries[n].id2))
            /\ pc = "done" => Len(entries) = Cardinality(DOMAIN int_markov_data)

C7_Witness ==
    /\ pc = "done"
    /\ \E r, q \in DecodedTable :
          /\ r.entry.id1 = 10
          /\ q.entry.id1 = 2
          /\ q.line < r.line

\* C8: once the table loop has consumed every triplet, the Start-Set is
\* exactly the identifiers of the second tokens of the triplets whose first
\* token is @BOS@, and the first line of the dictionary lists them in
\* strictly ascending order (an empty line for an empty set).
C8_StartSet ==
    /\ (pc \in {"write_dict", "write_keys", "done"}
          \/ (pc = "table" /\ t = Len(all_triplets))) =>
          start_word_ids =
             { word_to_id[tr[2]] :
                 tr \in {x \in Range(all_triplets) : x[1] = BOS} }
    /\ intdict_file.exists =>
          /\ StrictlyAscending(DecodedStart)
          /\ Range(DecodedStart) = { Value(x) : x \in start_word_ids }
          /\ start_word_ids = {} => LinesOf(intdict_file.data)[1] = <<>>

C8_Witness ==
    /\ pc = "done"
    /\ Cardinality(start_word_ids) >= 2
    /\ Len(DecodedStart) >= 2

SomeInputEmpty ==
    response_lines = <<>> \/ content_lines = <<>> \/ transition_lines = <<>>

SentinelOnlyWordList ==
    File(Join(<<BOS, EOS, LINK_TOKEN_CT, LINK_TOKEN_RC, LINK_TOKEN_TE>>,
              Newline))

C10_StartSetTableConsistent ==
    /\ pc \in {"table", "write_dict", "write_keys", "done"} =>
          /\ \A x \in start_word_ids :
                PackKey(word_to_id[BOS], x) \in DOMAIN int_markov_data
          /\ \A key \in DOMAIN int_markov_data :
                Len(int_markov_data[key]) >= 1
    /\ intdict_file.exists =>
          LET entries == DecodedEntries
              N == Len(DecodedWords)
          IN  /\ \A x \in Range(DecodedStart) : x \in 0..(N - 1)
              /\ \A n \in 1..Len(entries) :
                    /\ entries[n].id1 \in 0..(N - 1)
                    /\ entries[n].id2 \in 0..(N - 1)
                    /\ entries[n].successors /= <<>>
                    /\ \A x \in Range(entries[n].successors) : x \in 0..(N - 1)
              /\ pc = "done" =>
                    \A x \in Range(DecodedStart) :
                       \E n \in 1..Len(entries) :
                          /\ entries[n].id1 = IdOfWord(BOS)
                          /\ entries[n].id2 = x

C10_Witness ==
    /\ pc = "table"
    /\ t > 0
    /\ t < Len(all_triplets)
    /\ Cardinality(start_word_ids) >= 2

\* C2: the two files written for a triplet list are the files written for
\* every permutation of that list.
C2_OrderInvariance ==
    pc = "done" =>
        \A p \in Permutation(all_triplets) :
            /\ WordListText(IdToWord(p)) = wordlist_file.data
            /\ DictionaryText(p) = intdict_file.data

C2_Witness ==
    /\ pc = "done"
    /\ \E key \in DOMAIN int_markov_data :
          /\ Len(int_markov_data[key]) >= 2
          /\ IntLess(int_markov_data[key][2], int_markov_data[key][1])

\* the first occurrence of every triplet, in order
RECURSIVE FirstOccurrences(_, _)
FirstOccurrences(triplets, n) ==
    IF n > Len(triplets) THEN <<>>
    ELSE IF \E j \in 1..(n - 1) : triplets[j] = triplets[n]
         THEN FirstOccurrences(triplets, n + 1)
         ELSE <<triplets[n]>> \o FirstOccurrences(triplets, n + 1)

\* C6: the successors of every key line are strictly ascending, and the
\* dictionary written for a triplet list is the one written for the list
\* with every triplet observed once.
C6_SuccessorSets ==
    pc = "done" =>
        /\ \A r \in DecodedTable : StrictlyAscending(r.entry.successors)
        /\ intdict_file.data = DictionaryText(FirstOccurrences(all_triplets, 1))

C6_Witness ==
    /\ pc = "done"
    /\ Len(all_triplets) > Cardinality(Range(all_triplets))
    /\ \E r \in DecodedTable : Len(r.entry.successors) >= 2

=============================================================================
